---- MODULE Spec2Model ----
(***************************************************************************)
(* A model of the cores of buyStock:                                       *)
(*   - SwingAnalyzer.find_swing_cycles  (src/analysis/swing_analyzer.py)   *)
(*   - BacktestRunner._simulate_trading (src/backtesting/runner.py)        *)
(* and of the pure computations that read their results:                   *)
(*   - BacktestRunner._calculate_metrics (src/backtesting/runner.py,       *)
(*     src/backtesting/metrics.py)                                         *)
(*   - SwingAnalyzer.analyze_statistics, analyze_by_severity               *)
(* Prices, rates and money are exact rationals <<num, den>> (den > 0, in   *)
(* lowest terms); the source computes them in float64, so the model is the *)
(* program up to rounding.  Dates are day numbers: the date of bar i is i  *)
(* (the index is strictly increasing, so the order of dates is the order   *)
(* of bar indices).  Bar indices are 0-based as in the source.             *)
(***************************************************************************)
EXTENDS Integers, Sequences, FiniteSets, TLC

\* ------------------------------------------------------------ bounds
\* longest price series handed to find_swing_cycles
MaxLen == 5
\* most bars replayed by _simulate_trading
MaxBars == 4
\* longest equity curve (without trades) handed to _calculate_metrics
MaxCurve == 5
\* most rows of a backtest result with trades handed to _calculate_metrics
MaxRows == 3
\* most cycles handed to analyze_statistics and analyze_by_severity
MaxCycles == 3

\* ------------------------------------------------------------ rationals
Abs(x) == IF x < 0 THEN -x ELSE x

RECURSIVE GCD(_, _)
GCD(a, b) == IF b = 0 THEN a ELSE GCD(b, a % b)

Reduce(n, d, g) == IF d < 0 THEN <<(-n) \div g, (-d) \div g>> ELSE <<n \div g, d \div g>>

Norm(n, d) == IF d = 1 THEN <<n, 1>> ELSE Reduce(n, d, GCD(Abs(n), Abs(d)))

R(n) == <<n, 1>>
\* the sum over the least common denominator
RAddOver(x, y, g) == Norm(x[1] * (y[2] \div g) + y[1] * (x[2] \div g), x[2] * (y[2] \div g))
RAdd(x, y) == IF x[2] = y[2] THEN Norm(x[1] + y[1], x[2]) ELSE RAddOver(x, y, GCD(x[2], y[2]))
RSub(x, y) == RAdd(x, <<-y[1], y[2]>>)
RMul(x, y) == Norm(x[1] * y[1], x[2] * y[2])
RDiv(x, y) == Norm(x[1] * y[2], x[2] * y[1])
RNeg(x) == <<-x[1], x[2]>>
RLt(x, y) == x[1] * y[2] < y[1] * x[2]
RLe(x, y) == x[1] * y[2] <= y[1] * x[2]
RGt(x, y) == RLt(y, x)
RGe(x, y) == RLe(y, x)
RMin(x, y) == IF RLe(x, y) THEN x ELSE y

\* Optional[T]: None is the empty tuple, a present value x is <<x>>.
None == <<>>
Some(x) == <<x>>

\* ------------------------------------------------------------ inputs
\* closes handed to find_swing_cycles (strictly positive)
SwingPrices == {4, 6, 7, 9, 10}
\* the documented scenario of the detector: daily closes 100, 95, 85, 90, 100
ScenarioCloses == <<100, 95, 85, 90, 100>>
\* thresholds: 1/10 is the default (drawdown_threshold = 0.10); 0 and 1 lie
\* outside the documented range (0,1)
Thresholds == {<<0, 1>>, <<1, 10>>, <<1, 2>>, <<1, 1>>}
\* the signal column and the closes replayed by _simulate_trading
Signals == {"STRONG_BUY", "BUY", "HOLD", "SELL", "STRONG_SELL"}
SimPrices == {1, 2}
\* the constructor's arguments: capital > 0, commission >= 0, slippage in [0,1)
Capitals == {<<100, 1>>}
\* <<commission, slippage>>: no costs; both 1/4; commission 1 (a buy of half the
\* cash costs all of it); commission 2 (above 1)
Rates == {<<<<0, 1>>, <<0, 1>>>>, <<<<1, 4>>, <<1, 4>>>>, <<<<1, 1>>, <<0, 1>>>>,
          <<<<2, 1>>, <<1, 4>>>>}

\* the documented scenario of the simulator: capital 100000, no commission, no
\* slippage, every close 100
ScenarioCapital == <<100000, 1>>
ScenarioPrices == {100}

RECURSIVE SeqsUpTo(_, _)
SeqsUpTo(S, k) ==
    IF k = 0 THEN {<<>>}
    ELSE LET shorter == SeqsUpTo(S, k - 1)
         IN  shorter \cup {Append(s, x) : s \in {t \in shorter : Len(t) = k - 1}, x \in S}

VARIABLES
    \* ---- find_swing_cycles
    close,              \* df['Close'].values, as a sequence of integers
    threshold,          \* the threshold in force
    pc,                 \* "start", "loop", "done", "error" ("idle" for the other program)
    i,                  \* the loop index
    cycle_peak, cycle_peak_idx, cycle_trough, cycle_trough_idx,
    in_drawdown, drawdown_start_idx,
    cycles,             \* the list being built / returned
    n_entries,          \* history: how many times in_drawdown was set
    \* ---- BacktestRunner
    initial_capital, commission, slippage,      \* set by __init__
    sim_pc,             \* "loop", "done", "error" ("idle" for the other program)
    position, cash, entry_price,                \* the locals of _simulate_trading
    df,                 \* the rows written so far: Signal, Close and the six columns
    Daily_Return, Cumulative_Return, Benchmark, Benchmark_Return,
    \* ---- _calculate_metrics
    backtest_result,    \* the rows handed in: Portfolio, Benchmark, Trade, Trade_Return
    m_pc,               \* "start", "done", "error" ("idle" for the other programs)
    metrics,            \* the PerformanceMetrics returned
    \* ---- analyze_statistics, analyze_by_severity
    a_cycles,           \* the cycles argument of both
    a_pc,               \* "start", "stats", "done" ("idle" for the other programs)
    stats,              \* the dict returned by analyze_statistics (<<>> for {})
    by_severity         \* the dict returned by analyze_by_severity, as a function

swingVars == <<close, threshold, pc, i, cycle_peak, cycle_peak_idx, cycle_trough,
               cycle_trough_idx, in_drawdown, drawdown_start_idx, cycles, n_entries>>

simVars == <<initial_capital, commission, slippage, sim_pc, position, cash, entry_price,
             df, Daily_Return, Cumulative_Return, Benchmark, Benchmark_Return>>

metricVars == <<backtest_result, m_pc, metrics>>

analyzeVars == <<a_cycles, a_pc, stats, by_severity>>
vars == <<swingVars, simVars, metricVars, analyzeVars>>

\* ------------------------------------------------------------ find_swing_cycles
n == Len(close)
\* close[j] for a 0-based j
Close(j) == R(close[j + 1])
\* dates[j].to_pydatetime(): the day number of bar j
Dates(j) == j

\* mutant of TooShort: the guard off by one (n < 1)
TooShortOffByOne(len) == len < 1

\* if n < 2: return cycles
TooShort(len) == len < 2

\* mutant of IsNewHigh: >= in place of >
IsNewHighOrEqual(price, peak) == RGe(price, peak)

\* current_price > cycle_peak
IsNewHigh(price, peak) == RGt(price, peak)

\* mutant of IsNewLow: <= in place of <
IsNewLowOrEqual(price, trough) == RLe(price, trough)

\* current_price < cycle_trough
IsNewLow(price, trough) == RLt(price, trough)

\* current_dd <= -threshold (also max_dd <= -threshold)
ReachesThreshold(dd, th) == RLe(dd, RNeg(th))

\* mutant of IsRebound: >= in place of >
IsReboundOrEqual(recovery) == RGe(recovery, <<1, 2>>)

\* recovery > 0.50
IsRebound(recovery) == RGt(recovery, <<1, 2>>)

\* mutant of FindRecovery: the scan starts at bar 0 instead of the trough
RECURSIVE ScanFrom(_, _)
ScanFrom(j, peak_val) ==
    IF j >= n THEN None
    ELSE IF RGe(Close(j), peak_val) THEN Some(j)
    ELSE ScanFrom(j + 1, peak_val)

FindRecoveryFromZero(j, peak_val) == ScanFrom(0, peak_val)

\* mutant of FindRecovery: close[j] > peak_val in place of >=
RECURSIVE FindRecoveryStrict(_, _)
FindRecoveryStrict(j, peak_val) ==
    IF j >= n THEN None
    ELSE IF RGt(Close(j), peak_val) THEN Some(j)
    ELSE FindRecoveryStrict(j + 1, peak_val)

\* mutant of FindRecovery: the scan stops before the bar being processed
RECURSIVE FindRecoveryBefore(_, _)
FindRecoveryBefore(j, peak_val) ==
    IF j >= i THEN None
    ELSE IF RGe(Close(j), peak_val) THEN Some(j)
    ELSE FindRecoveryBefore(j + 1, peak_val)

\* for j in range(cycle_trough_idx, n): if close[j] >= peak_val: recovery_idx = j; break
RECURSIVE FindRecovery(_, _)
FindRecovery(j, peak_val) ==
    IF j >= n THEN None
    ELSE IF RGe(Close(j), peak_val) THEN Some(j)
    ELSE FindRecovery(j + 1, peak_val)

\* Python truth of "recovery_idx" in "x if recovery_idx else None": None and 0 are false
Truthy(opt) == opt # None /\ opt[1] # 0

\* SwingCycle(...) as built in the three closing places; closed_by and closed_at
\* are history fields recording the place and the bar (n for the end of series)
SwingCycle(start_idx, trough, trough_idx, by, at) ==
    LET peak_val == Close(start_idx)
        recovery_idx == FindRecovery(trough_idx, peak_val)
    IN  [peak_date |-> Dates(start_idx),
         peak_price |-> peak_val,
         trough_date |-> Dates(trough_idx),
         trough_price |-> trough,
         recovery_date |-> IF Truthy(recovery_idx) THEN Some(Dates(recovery_idx[1])) ELSE None,
         recovery_price |-> IF Truthy(recovery_idx) THEN Some(Close(recovery_idx[1])) ELSE None,
         closed_by |-> by,
         closed_at |-> at]

\* mutant of CloseCycle: the guard strict (max_dd < -threshold)
CloseCycleStrictGuard(cs, start_idx, trough, trough_idx, by, at) ==
    LET peak_val == Close(start_idx)
        max_dd == RDiv(RSub(trough, peak_val), peak_val)
    IN  IF RLt(max_dd, RNeg(threshold))
        THEN Append(cs, SwingCycle(start_idx, trough, trough_idx, by, at))
        ELSE cs

\* max_dd = (cycle_trough - peak_val) / peak_val; if max_dd <= -threshold: cycles.append(cycle)
CloseCycle(cs, start_idx, trough, trough_idx, by, at) ==
    LET peak_val == Close(start_idx)
        max_dd == RDiv(RSub(trough, peak_val), peak_val)
    IN  IF ReachesThreshold(max_dd, threshold)
        THEN Append(cs, SwingCycle(start_idx, trough, trough_idx, by, at))
        ELSE cs

\* SwingCycle.drawdown
Drawdown(c) == RDiv(RSub(c.trough_price, c.peak_price), c.peak_price)

\* SwingCycle.decline_days
DeclineDays(c) == c.trough_date - c.peak_date

\* SwingCycle.recovery_days: "if self.recovery_date" is true of every datetime
RecoveryDays(c) ==
    IF c.recovery_date # None THEN Some(c.recovery_date[1] - c.trough_date) ELSE None

\* mutant of SortByPeak: the sort descending (reverse=True)
RECURSIVE InsertByPeakDesc(_, _)
InsertByPeakDesc(sorted, c) ==
    IF sorted = <<>> THEN <<c>>
    ELSE IF sorted[Len(sorted)].peak_date >= c.peak_date THEN Append(sorted, c)
    ELSE Append(InsertByPeakDesc(SubSeq(sorted, 1, Len(sorted) - 1), c), sorted[Len(sorted)])

RECURSIVE SortByPeakDesc(_)
SortByPeakDesc(cs) ==
    IF cs = <<>> THEN <<>>
    ELSE InsertByPeakDesc(SortByPeakDesc(SubSeq(cs, 1, Len(cs) - 1)), cs[Len(cs)])

\* cycles.sort(key=lambda x: x.peak_date): a stable sort
RECURSIVE InsertByPeak(_, _)
InsertByPeak(sorted, c) ==
    IF sorted = <<>> THEN <<c>>
    ELSE IF sorted[Len(sorted)].peak_date <= c.peak_date THEN Append(sorted, c)
    ELSE Append(InsertByPeak(SubSeq(sorted, 1, Len(sorted) - 1), c), sorted[Len(sorted)])

RECURSIVE SortByPeak(_)
SortByPeak(cs) ==
    IF cs = <<>> THEN <<>>
    ELSE InsertByPeak(SortByPeak(SubSeq(cs, 1, Len(cs) - 1)), cs[Len(cs)])

\* _calculate_metrics is not running
MetricsIdle == backtest_result = <<>> /\ m_pc = "idle" /\ metrics = <<>>

AnalyzeIdle == a_cycles = <<>> /\ a_pc = "idle" /\ stats = <<>> /\ by_severity = <<>>

\* the simulator is not running
SimIdle ==
    /\ initial_capital = R(0) /\ commission = R(0) /\ slippage = R(0)
    /\ sim_pc = "idle"
    /\ position = R(0) /\ cash = R(0) /\ entry_price = R(0)
    /\ df = <<>>
    /\ Daily_Return = <<>> /\ Cumulative_Return = <<>>
    /\ Benchmark = <<>> /\ Benchmark_Return = <<>>

SwingInit ==
    /\ close \in SeqsUpTo(SwingPrices, MaxLen) \cup {ScenarioCloses}
    /\ threshold \in Thresholds
    /\ pc = "start"
    /\ i = 0
    /\ cycle_peak = R(0) /\ cycle_peak_idx = 0
    /\ cycle_trough = R(0) /\ cycle_trough_idx = 0
    /\ in_drawdown = FALSE /\ drawdown_start_idx = 0
    /\ cycles = <<>>
    /\ n_entries = 0
    /\ SimIdle
    /\ MetricsIdle /\ AnalyzeIdle

\* lines 108-123: the early return and the initialisation from close[0]
SwingStart ==
    /\ pc = "start"
    /\ IF TooShort(n)
       THEN /\ pc' = "done"
            /\ UNCHANGED <<cycle_peak, cycle_trough>>
       ELSE IF n = 0
       THEN \* close[0] on an empty array: IndexError
            /\ pc' = "error"
            /\ UNCHANGED <<cycle_peak, cycle_trough>>
       ELSE /\ pc' = "loop"
            /\ cycle_peak' = Close(0)
            /\ cycle_trough' = Close(0)
    /\ UNCHANGED <<close, threshold, i, cycle_peak_idx, cycle_trough_idx, in_drawdown,
                   drawdown_start_idx, cycles, n_entries>>
    /\ UNCHANGED <<simVars, metricVars, analyzeVars>>

\* lines 129-162: the new-high branch (closing an open drawdown) and the new-low branch
AfterHighLow(s0, current_price, bar) ==
    IF IsNewHigh(current_price, s0.peak)
    THEN [s0 EXCEPT
            !.cs = IF s0.dd
                   THEN CloseCycle(s0.cs, s0.start, s0.trough, s0.trough_idx, "new_high", bar)
                   ELSE s0.cs,
            !.dd = FALSE,
            !.peak = current_price, !.peak_idx = bar,
            !.trough = current_price, !.trough_idx = bar]
    ELSE IF IsNewLow(current_price, s0.trough)
    THEN [s0 EXCEPT !.trough = current_price, !.trough_idx = bar]
    ELSE s0

\* mutant of AfterEntry: the drawdown is dated from the trough, not from the peak
AfterEntryFromTrough(s1, current_price) ==
    LET current_dd == RDiv(RSub(current_price, s1.peak), s1.peak)
    IN  IF ReachesThreshold(current_dd, threshold) /\ ~s1.dd
        THEN [s1 EXCEPT !.dd = TRUE, !.start = s1.trough_idx, !.entries = s1.entries + 1]
        ELSE s1

\* lines 165-170: entering the drawdown
AfterEntry(s1, current_price) ==
    LET current_dd == RDiv(RSub(current_price, s1.peak), s1.peak)
    IN  IF ReachesThreshold(current_dd, threshold) /\ ~s1.dd
        THEN [s1 EXCEPT !.dd = TRUE, !.start = s1.peak_idx, !.entries = s1.entries + 1]
        ELSE s1

\* lines 173-203: the 50% rebound that closes the cycle and starts a new one
AfterRebound(s2, current_price, bar) ==
    IF RGt(s2.trough, R(0))
    THEN LET recovery == RDiv(RSub(current_price, s2.trough), s2.trough)
         IN  IF IsRebound(recovery) /\ s2.dd
             THEN [s2 EXCEPT
                     !.cs = CloseCycle(s2.cs, s2.start, s2.trough, s2.trough_idx,
                                       "rebound", bar),
                     !.dd = FALSE,
                     !.peak = current_price, !.peak_idx = bar,
                     !.trough = current_price, !.trough_idx = bar]
             ELSE s2
    ELSE s2

\* lines 125-203: one iteration of "for i in range(n)"
SwingBar ==
    /\ pc = "loop"
    /\ i < n
    /\ \E s0 \in {[peak |-> cycle_peak, peak_idx |-> cycle_peak_idx,
                   trough |-> cycle_trough, trough_idx |-> cycle_trough_idx,
                   dd |-> in_drawdown, start |-> drawdown_start_idx,
                   cs |-> cycles, entries |-> n_entries]} :
       \E s1 \in {AfterHighLow(s0, Close(i), i)} :
       \E s2 \in {AfterEntry(s1, Close(i))} :
       \E s3 \in {AfterRebound(s2, Close(i), i)} :
           /\ cycle_peak' = s3.peak
           /\ cycle_peak_idx' = s3.peak_idx
           /\ cycle_trough' = s3.trough
           /\ cycle_trough_idx' = s3.trough_idx
           /\ in_drawdown' = s3.dd
           /\ drawdown_start_idx' = s3.start
           /\ cycles' = s3.cs
           /\ n_entries' = s3.entries
    /\ i' = i + 1
    /\ UNCHANGED <<close, threshold, pc>>
    /\ UNCHANGED <<simVars, metricVars, analyzeVars>>

\* lines 205-229: the cycle still open at the end of the series, the sort, the return
SwingEnd ==
    /\ pc = "loop"
    /\ i = n
    /\ cycles' = SortByPeak(IF in_drawdown
                            THEN CloseCycle(cycles, drawdown_start_idx, cycle_trough,
                                            cycle_trough_idx, "end_of_series", n)
                            ELSE cycles)
    /\ pc' = "done"
    /\ UNCHANGED <<close, threshold, i, cycle_peak, cycle_peak_idx, cycle_trough,
                   cycle_trough_idx, in_drawdown, drawdown_start_idx, n_entries>>
    /\ UNCHANGED <<simVars, metricVars, analyzeVars>>

SwingNext == SwingStart \/ SwingBar \/ SwingEnd

SwingSpec == SwingInit /\ [][SwingNext]_vars

\* ------------------------------------------------------------ _simulate_trading
\* the detector is not running
SwingIdle ==
    /\ close = <<>> /\ threshold = R(0) /\ pc = "idle" /\ i = 0
    /\ cycle_peak = R(0) /\ cycle_peak_idx = 0
    /\ cycle_trough = R(0) /\ cycle_trough_idx = 0
    /\ in_drawdown = FALSE /\ drawdown_start_idx = 0
    /\ cycles = <<>> /\ n_entries = 0

\* mutant of IsBuy: every signal that is not a sell buys
IsNotSell(signal) == signal \notin {"STRONG_SELL", "SELL"}

\* mutant of IsSell: every signal that is not a buy sells
IsNotBuy(signal) == signal \notin {"STRONG_BUY", "BUY"}

\* signal in ['STRONG_BUY', 'BUY']
IsBuy(signal) == signal \in {"STRONG_BUY", "BUY"}
\* signal in ['STRONG_SELL', 'SELL']
IsSell(signal) == signal \in {"STRONG_SELL", "SELL"}

\* mutant of TargetPosition: BUY adds 0.5 without the min(..., 1.0)
TargetPositionNoClamp(signal, pos) ==
    IF signal = "STRONG_BUY" THEN R(1) ELSE RAdd(pos, <<1, 2>>)

\* target_position = 1.0 for STRONG_BUY, min(position + 0.5, 1.0) for BUY
TargetPosition(signal, pos) ==
    IF signal = "STRONG_BUY" THEN R(1) ELSE RMin(RAdd(pos, <<1, 2>>), R(1))

\* mutant of Cost: the commission left out
CostNoCommission(buy_amount) == buy_amount

\* cost = buy_amount * (1 + self.commission)
Cost(buy_amount) == RMul(buy_amount, RAdd(R(1), commission))

\* mutant of CanAfford: the check dropped
AlwaysAfford(cost, money) == TRUE

\* if cost <= cash
CanAfford(cost, money) == RLe(cost, money)

\* mutant of SellRatio: every sell sells all
SellRatioAll(signal) == R(1)

\* sell_ratio = 1.0 for STRONG_SELL, 0.5 for SELL
SellRatio(signal) == IF signal = "STRONG_SELL" THEN R(1) ELSE <<1, 2>>

\* mutant of SellValue: sized on the cash (as the buy is), not on initial_capital
SellValueOnCash(sell_position, actual_price, entry) ==
    RMul(RMul(RMul(sell_position, cash),
              IF RGt(entry, R(0)) THEN RDiv(actual_price, entry) ELSE R(1)),
         RSub(R(1), commission))

\* sell_value = sell_position * initial_capital * (actual_price / entry_price
\*              if entry_price > 0 else 1); sell_value *= (1 - commission)
SellValue(sell_position, actual_price, entry) ==
    RMul(RMul(RMul(sell_position, initial_capital),
              IF RGt(entry, R(0)) THEN RDiv(actual_price, entry) ELSE R(1)),
         RSub(R(1), commission))

\* holdings = position * initial_capital * (price / df['Close'].iloc[0])
HoldingsValue(pos, price, close0) == RMul(RMul(pos, initial_capital), RDiv(price, close0))

\* mutant of BuyBranch: a buy that costs more than the cash is filled with what
\* the cash pays for
BuyBranchPartialFill(st, signal, price) ==
    LET target_position == TargetPosition(signal, st.position)
        buy_amount == RMul(RSub(target_position, st.position), st.cash)
        actual_price == RMul(price, RAdd(R(1), slippage))
        cost == RMin(Cost(buy_amount), st.cash)
    IN  IF RGt(buy_amount, R(0))
        THEN [st EXCEPT !.cash = RSub(st.cash, cost),
                        !.position = target_position,
                        !.entry_price = actual_price,
                        !.trade = 1]
        ELSE st

\* lines 111-129: the buy branch, from the locals st
BuyBranch(st, signal, price) ==
    LET target_position == TargetPosition(signal, st.position)
        buy_amount == RMul(RSub(target_position, st.position), st.cash)
        actual_price == RMul(price, RAdd(R(1), slippage))
        cost == Cost(buy_amount)
    IN  IF RGt(buy_amount, R(0)) /\ CanAfford(cost, st.cash)
        THEN [st EXCEPT !.cash = RSub(st.cash, cost),
                        !.position = target_position,
                        !.entry_price = actual_price,
                        !.trade = 1]
        ELSE st

\* mutant of SellBranch: entry_price is not reset when the position reaches 0
SellBranchKeepEntry(st, signal, price) ==
    LET sell_ratio == SellRatio(signal)
        sell_position == RMul(st.position, sell_ratio)
        actual_price == RMul(price, RSub(R(1), slippage))
        new_position == RMul(st.position, RSub(R(1), sell_ratio))
    IN  IF RGt(sell_position, R(0))
        THEN [st EXCEPT
                !.trade_return = IF RGt(st.entry_price, R(0))
                                 THEN RDiv(RSub(actual_price, st.entry_price), st.entry_price)
                                 ELSE R(0),
                !.cash = RAdd(st.cash, SellValue(sell_position, actual_price, st.entry_price)),
                !.position = new_position,
                !.trade = -1]
        ELSE st

\* lines 131-154: the sell branch
SellBranch(st, signal, price) ==
    LET sell_ratio == SellRatio(signal)
        sell_position == RMul(st.position, sell_ratio)
        actual_price == RMul(price, RSub(R(1), slippage))
        new_position == RMul(st.position, RSub(R(1), sell_ratio))
    IN  IF RGt(sell_position, R(0))
        THEN [st EXCEPT
                !.trade_return = IF RGt(st.entry_price, R(0))
                                 THEN RDiv(RSub(actual_price, st.entry_price), st.entry_price)
                                 ELSE R(0),
                !.cash = RAdd(st.cash, SellValue(sell_position, actual_price, st.entry_price)),
                !.position = new_position,
                !.trade = -1,
                !.entry_price = IF new_position = R(0) THEN R(0) ELSE st.entry_price]
        ELSE st

\* lines 107-154: the dispatch on the signal
Trade(st, signal, price) ==
    IF IsBuy(signal) /\ RLt(st.position, R(1)) THEN BuyBranch(st, signal, price)
    ELSE IF IsSell(signal) /\ RGt(st.position, R(0)) THEN SellBranch(st, signal, price)
    ELSE st

\* df['Close']: the closes a run draws its bars from
ClosesOf(capital) == IF capital = ScenarioCapital THEN ScenarioPrices ELSE SimPrices

\* __init__ (lines 44-46) and lines 89-101
SimInit ==
    /\ \/ /\ initial_capital \in Capitals
          /\ \E r \in Rates : commission = r[1] /\ slippage = r[2]
       \/ /\ initial_capital = ScenarioCapital
          /\ commission = R(0) /\ slippage = R(0)
    /\ sim_pc = "loop"
    /\ position = R(0)
    /\ cash = initial_capital
    /\ entry_price = R(0)
    /\ df = <<>>
    /\ Daily_Return = <<>> /\ Cumulative_Return = <<>>
    /\ Benchmark = <<>> /\ Benchmark_Return = <<>>
    /\ SwingIdle
    /\ MetricsIdle /\ AnalyzeIdle

\* lines 103-166: one iteration of "for i in range(len(df))" on the bar (signal, price)
SimBar ==
    /\ sim_pc = "loop"
    /\ Len(df) < MaxBars
    /\ \E signal \in Signals, p \in ClosesOf(initial_capital) :
       \E st \in {Trade([cash |-> cash, position |-> position, entry_price |-> entry_price,
                         trade |-> 0, trade_return |-> R(0)], signal, R(p))} :
       \E holdings \in {HoldingsValue(st.position, R(p),
                                      IF df = <<>> THEN R(p) ELSE df[1].Close)} :
           /\ cash' = st.cash
           /\ position' = st.position
           /\ entry_price' = st.entry_price
           /\ df' = Append(df, [Signal |-> signal, Close |-> R(p),
                                Position |-> st.position, Cash |-> st.cash,
                                Holdings |-> holdings,
                                Portfolio |-> RAdd(st.cash, holdings),
                                Trade |-> st.trade, Trade_Return |-> st.trade_return])
    /\ UNCHANGED <<initial_capital, commission, slippage, sim_pc,
                   Daily_Return, Cumulative_Return, Benchmark, Benchmark_Return>>
    /\ UNCHANGED <<swingVars, metricVars, analyzeVars>>

\* df['Portfolio'].pct_change(): undefined (NaN) on the first bar
PctChange(k) ==
    IF k = 1 \/ df[k - 1].Portfolio = R(0) THEN None
    ELSE Some(RSub(RDiv(df[k].Portfolio, df[k - 1].Portfolio), R(1)))

\* (x / self.initial_capital - 1) * 100
ReturnPct(x) == RMul(RSub(RDiv(x, initial_capital), R(1)), R(100))

\* mutant of BenchmarkValue: the benchmark not scaled by the price
BenchmarkValueFlat(k) == initial_capital

\* df['Close'] / df['Close'].iloc[0] * self.initial_capital
BenchmarkValue(k) == RMul(RDiv(df[k].Close, df[1].Close), initial_capital)

\* lines 168-178: the derived columns and the return; df['Close'].iloc[0] raises
\* IndexError on a frame without rows
SimEnd ==
    /\ sim_pc = "loop"
    /\ Daily_Return' = [k \in 1..Len(df) |-> PctChange(k)]
    /\ Cumulative_Return' = [k \in 1..Len(df) |-> ReturnPct(df[k].Portfolio)]
    /\ IF df = <<>>
       THEN /\ sim_pc' = "error"
            /\ UNCHANGED <<Benchmark, Benchmark_Return>>
       ELSE /\ sim_pc' = "done"
            /\ Benchmark' = [k \in 1..Len(df) |-> BenchmarkValue(k)]
            /\ Benchmark_Return' = [k \in 1..Len(df) |-> ReturnPct(BenchmarkValue(k))]
    /\ UNCHANGED <<initial_capital, commission, slippage, position, cash, entry_price, df>>
    /\ UNCHANGED <<swingVars, metricVars, analyzeVars>>

SimNext == SimBar \/ SimEnd

SimSpec == SimInit /\ [][SimNext]_vars

\* ------------------------------------------------------------ _calculate_metrics
\* Results that float64 holds and a rational cannot: a number x is <<"num", x>>,
\* +infinity <<"inf">>, NaN <<"nan">>; sqrt(252) * mean / std is kept unevaluated as
\* <<"ratio", mean, variance>>, and a / abs(b) with an irrational a as
\* <<"per", base, bars, b>> (a = (base ** (252 / bars) - 1) * 100).
Num(x) == <<"num", x>>
Inf == <<"inf">>
NaN == <<"nan">>

\* the equity values and the trade columns of the inputs
CurveValues == {1, 2, 4}
\* <<Trade, Trade_Return>>: no trade, a buy, a losing sell, a flat sell, a winning sell
TradeSamples == {<<0, <<0, 1>>>>, <<1, <<0, 1>>>>, <<-1, <<-1, 2>>>>, <<-1, <<0, 1>>>>,
                 <<-1, <<1, 2>>>>}
\* self.initial_capital of the runner whose result is measured
MetricsCapital == <<2, 1>>

ResultRow(v, t) ==
    [Portfolio |-> R(v), Benchmark |-> MetricsCapital, Trade |-> t[1], Trade_Return |-> t[2]]

\* backtest results: equity curves without a trade up to MaxCurve bars, and results
\* with trades up to MaxRows bars
ResultInputs ==
    {[k \in 1..Len(c) |-> ResultRow(c[k], <<0, <<0, 1>>>>)] : c \in SeqsUpTo(CurveValues, MaxCurve)}
    \cup SeqsUpTo({ResultRow(v, t) : v \in CurveValues, t \in TradeSamples}, MaxRows)

RECURSIVE SeqSum(_)
SeqSum(xs) == IF xs = <<>> THEN R(0) ELSE RAdd(xs[1], SeqSum(Tail(xs)))

\* Series.mean()
Mean(xs) == RDiv(SeqSum(xs), R(Len(xs)))

\* Series.std() squared (ddof = 1): NaN (None) with fewer than two values
Variance(xs) ==
    IF Len(xs) < 2 THEN None
    ELSE Some(RDiv(SeqSum([k \in 1..Len(xs) |->
                              RMul(RSub(xs[k], Mean(xs)), RSub(xs[k], Mean(xs)))]),
                   R(Len(xs) - 1)))

\* xs[xs < 0], xs[xs > 0]
RECURSIVE Negatives(_)
Negatives(xs) ==
    IF xs = <<>> THEN <<>>
    ELSE IF RLt(xs[1], R(0)) THEN <<xs[1]>> \o Negatives(Tail(xs))
    ELSE Negatives(Tail(xs))

RECURSIVE Positives(_)
Positives(xs) ==
    IF xs = <<>> THEN <<>>
    ELSE IF RGt(xs[1], R(0)) THEN <<xs[1]>> \o Positives(Tail(xs))
    ELSE Positives(Tail(xs))

\* df['Daily_Return'].dropna(): pct_change of Portfolio without its first, undefined bar
DailyReturns(rows) ==
    [k \in 1..(Len(rows) - 1) |->
        RSub(RDiv(rows[k + 1].Portfolio, rows[k].Portfolio), R(1))]

\* risk_free_rate / periods_per_year = 0.02 / 252
DailyRiskFree == <<1, 12600>>

\* mutant of StdIsZero: the zero-deviation test dropped
StdNeverZero(xs) == FALSE

\* returns.std() == 0 (NaN == 0 is false)
StdIsZero(xs) == Variance(xs) = Some(R(0))

\* calculate_sharpe_ratio
CalculateSharpeRatio(returns) ==
    IF Len(returns) = 0 \/ StdIsZero(returns) THEN Num(R(0))
    ELSE IF Variance(returns) = None THEN NaN
    ELSE <<"ratio", RSub(Mean(returns), DailyRiskFree), Variance(returns)[1]>>

\* calculate_sortino_ratio
CalculateSortinoRatio(returns) ==
    IF Len(returns) = 0 THEN Num(R(0))
    ELSE IF Len(Negatives(returns)) = 0 \/ StdIsZero(Negatives(returns))
    THEN (IF RGt(Mean(returns), R(0)) THEN Inf ELSE Num(R(0)))
    ELSE IF Variance(Negatives(returns)) = None THEN NaN
    ELSE <<"ratio", RSub(Mean(returns), DailyRiskFree), Variance(Negatives(returns))[1]>>

\* portfolio_values.expanding().max() at bar k
RECURSIVE RunningMax(_, _)
RunningMax(pv, k) ==
    IF k = 1 THEN pv[1]
    ELSE IF RGt(pv[k], RunningMax(pv, k - 1)) THEN pv[k] ELSE RunningMax(pv, k - 1)

\* drawdown = (portfolio_values - running_max) / running_max * 100
DrawdownPct(pv) ==
    [k \in 1..Len(pv) |->
        RMul(RDiv(RSub(pv[k], RunningMax(pv, k)), RunningMax(pv, k)), R(100))]

\* mutant of SeriesMin: max() in place of min()
RECURSIVE SeriesMax(_)
SeriesMax(xs) ==
    IF Len(xs) = 1 THEN xs[1]
    ELSE IF RGt(xs[1], SeriesMax(Tail(xs))) THEN xs[1] ELSE SeriesMax(Tail(xs))

\* drawdown.min()
RECURSIVE SeriesMin(_)
SeriesMin(xs) ==
    IF Len(xs) = 1 THEN xs[1]
    ELSE IF RLt(xs[1], SeriesMin(Tail(xs))) THEN xs[1] ELSE SeriesMin(Tail(xs))

\* mutant of GroupIds: the cumsum() left out, every bar in group 1
GroupIdsFlat(flags) == [k \in 1..Len(flags) |-> 1]

\* (is_drawdown != is_drawdown.shift()).cumsum(): the first bar differs from the
\* missing value before it
RECURSIVE GroupIds(_)
GroupIds(flags) ==
    IF flags = <<>> THEN <<>>
    ELSE IF Len(flags) = 1 THEN <<1>>
    ELSE LET before == GroupIds(SubSeq(flags, 1, Len(flags) - 1))
             last == before[Len(before)]
         IN  Append(before,
                    IF flags[Len(flags)] # flags[Len(flags) - 1] THEN last + 1 ELSE last)

\* drawdown_groups[is_drawdown].value_counts().max()
LongestGroup(flags, ids) ==
    LET count(g) == Cardinality({k \in 1..Len(flags) : flags[k] /\ ids[k] = g})
        kept == {ids[k] : k \in {j \in 1..Len(flags) : flags[j]}}
    IN  CHOOSE c \in {count(g) : g \in kept} : \A g \in kept : count(g) <= c

\* calculate_max_drawdown: <<max_dd, max_duration>>
CalculateMaxDrawdown(pv) ==
    IF Len(pv) = 0 THEN <<R(0), 0>>
    ELSE LET drawdown == DrawdownPct(pv)
             is_drawdown == [k \in 1..Len(pv) |-> RLt(drawdown[k], R(0))]
         IN  IF \A k \in 1..Len(pv) : ~is_drawdown[k] THEN <<R(0), 0>>
             ELSE <<SeriesMin(drawdown), LongestGroup(is_drawdown, GroupIds(is_drawdown))>>

\* calculate_trade_statistics on the Trade_Return of the trades
CalculateTradeStatistics(returns) ==
    IF Len(returns) = 0
    THEN [total_trades |-> 0, win_rate |-> Num(R(0)), profit_factor |-> Num(R(0)),
          avg_win |-> Num(R(0)), avg_loss |-> Num(R(0))]
    ELSE LET wins == Positives(returns)
             losses == Negatives(returns)
             total_profit == IF Len(wins) > 0 THEN SeqSum(wins) ELSE R(0)
             summed == SeqSum(losses)
             total_loss == IF Len(losses) > 0
                           THEN (IF RLt(summed, R(0)) THEN RNeg(summed) ELSE summed)
                           ELSE R(0)
         IN  [total_trades |-> Len(returns),
              win_rate |-> Num(RMul(RDiv(R(Len(wins)), R(Len(returns))), R(100))),
              profit_factor |-> IF RGt(total_loss, R(0))
                                THEN Num(RDiv(total_profit, total_loss)) ELSE Inf,
              avg_win |-> Num(IF Len(wins) > 0 THEN RMul(Mean(wins), R(100)) ELSE R(0)),
              avg_loss |-> Num(IF Len(losses) > 0 THEN RMul(Mean(losses), R(100)) ELSE R(0))]

\* mutant of IsTradeBar: only the sells count
IsSellBar(row) == row.Trade = -1

\* df['Trade'] != 0
IsTradeBar(row) == row.Trade # 0

\* df[df['Trade'] != 0]['Trade_Return']
RECURSIVE TradeReturns(_)
TradeReturns(rows) ==
    IF rows = <<>> THEN <<>>
    ELSE IF IsTradeBar(rows[1]) THEN <<rows[1].Trade_Return>> \o TradeReturns(Tail(rows))
    ELSE TradeReturns(Tail(rows))

\* lines 195-240: the PerformanceMetrics of a result with at least one row
PerformanceMetrics(rows) ==
    LET final_value == rows[Len(rows)].Portfolio
        total_return == ReturnPct(final_value)
        benchmark_return == ReturnPct(rows[Len(rows)].Benchmark)
        daily_returns == DailyReturns(rows)
        dd == CalculateMaxDrawdown([k \in 1..Len(rows) |-> rows[k].Portfolio])
        trades == TradeReturns(rows)
        trade_stats == IF Len(trades) > 0
                       THEN CalculateTradeStatistics(trades)
                       ELSE [total_trades |-> 0, win_rate |-> Num(R(0)),
                             profit_factor |-> Num(R(0)), avg_win |-> Num(R(0)),
                             avg_loss |-> Num(R(0))]
    IN  [total_return |-> total_return,
         annualized_return |-> <<"per", RDiv(final_value, initial_capital), Len(rows)>>,
         benchmark_return |-> benchmark_return,
         excess_return |-> RSub(total_return, benchmark_return),
         volatility |-> IF Variance(daily_returns) = None THEN NaN
                        ELSE <<"std", Variance(daily_returns)[1]>>,
         max_drawdown |-> dd[1],
         max_drawdown_duration |-> dd[2],
         sharpe_ratio |-> CalculateSharpeRatio(daily_returns),
         sortino_ratio |-> CalculateSortinoRatio(daily_returns),
         calmar_ratio |-> IF dd[1] # R(0)
                          THEN <<"per", RDiv(final_value, initial_capital), Len(rows), dd[1]>>
                          ELSE Num(R(0)),
         total_trades |-> trade_stats.total_trades,
         win_rate |-> trade_stats.win_rate,
         profit_factor |-> trade_stats.profit_factor,
         avg_win |-> trade_stats.avg_win,
         avg_loss |-> trade_stats.avg_loss,
         trading_days |-> Len(rows)]

MetricsInit ==
    /\ backtest_result \in ResultInputs
    /\ m_pc = "start"
    /\ metrics = <<>>
    /\ initial_capital = MetricsCapital
    /\ commission = R(0) /\ slippage = R(0)
    /\ sim_pc = "idle"
    /\ position = R(0) /\ cash = R(0) /\ entry_price = R(0)
    /\ df = <<>>
    /\ Daily_Return = <<>> /\ Cumulative_Return = <<>>
    /\ Benchmark = <<>> /\ Benchmark_Return = <<>>
    /\ SwingIdle /\ AnalyzeIdle

\* lines 187-246: _calculate_metrics; df.index[0] raises IndexError on a frame
\* without rows
CalculateMetrics ==
    /\ m_pc = "start"
    /\ IF backtest_result = <<>>
       THEN m_pc' = "error" /\ UNCHANGED metrics
       ELSE m_pc' = "done" /\ metrics' = PerformanceMetrics(backtest_result)
    /\ UNCHANGED <<backtest_result, swingVars, simVars, analyzeVars>>

MetricsSpec == MetricsInit /\ [][CalculateMetrics]_vars

\* ------------------------------------------------------------ analyze_statistics, analyze_by_severity
\* SwingCycle.total_cycle_days
TotalCycleDays(c) ==
    IF c.recovery_date # None THEN Some(c.recovery_date[1] - c.peak_date) ELSE None

\* the cycles of the inputs: a peak of 100 at day 0, a trough at day 2 with a drawdown
\* of 12%, 15%, 20% or 30%, and no recovery, a recovery on the day of the trough or
\* a recovery two days after it
SampleCycles ==
    {[peak_date |-> 0, peak_price |-> R(100),
      trough_date |-> 2, trough_price |-> R(t),
      recovery_date |-> r,
      recovery_price |-> IF r = None THEN None ELSE Some(R(100))] :
        t \in {88, 85, 80, 70}, r \in {None, Some(2), Some(4)}}

\* "if c.recovery_days": None and 0 are both false
HasRecoveryDays(c) == Truthy(RecoveryDays(c))

\* "if c.total_cycle_days"
HasTotalCycleDays(c) == Truthy(TotalCycleDays(c))

\* "if c.recovery_date": every datetime is true
HasRecoveryDate(c) == c.recovery_date # None

\* np.min, np.max
ListMin(xs) == CHOOSE x \in {xs[k] : k \in 1..Len(xs)} : \A k \in 1..Len(xs) : RLe(x, xs[k])

ListMax(xs) == CHOOSE x \in {xs[k] : k \in 1..Len(xs)} : \A k \in 1..Len(xs) : RGe(x, xs[k])

\* np.mean, np.min, np.max of a non-empty list of numbers
Summary(xs) == [mean |-> Mean(xs), min |-> ListMin(xs), max |-> ListMax(xs)]

\* "... if xs else None" of the same
SummaryOrNone(xs) ==
    IF xs = <<>> THEN [mean |-> None, min |-> None, max |-> None]
    ELSE [mean |-> Some(Mean(xs)), min |-> Some(ListMin(xs)), max |-> Some(ListMax(xs))]

\* [c.drawdown for c in cycles]
DrawdownsOf(cs) == [k \in 1..Len(cs) |-> Drawdown(cs[k])]

\* [c.decline_days for c in cycles]
DeclineDaysOf(cs) == [k \in 1..Len(cs) |-> R(DeclineDays(cs[k]))]

\* [c.recovery_days for c in cycles if c.recovery_days]
RecoveryDaysOf(cs) ==
    LET kept == SelectSeq(cs, HasRecoveryDays)
    IN  [k \in 1..Len(kept) |-> R(RecoveryDays(kept[k])[1])]

\* [c.total_cycle_days for c in cycles if c.total_cycle_days]
TotalDaysOf(cs) ==
    LET kept == SelectSeq(cs, HasTotalCycleDays)
    IN  [k \in 1..Len(kept) |-> R(TotalCycleDays(kept[k])[1])]

\* analyze_statistics; the median, std and percentile entries are left out
Statistics(cs) ==
    IF cs = <<>> THEN <<>>
    ELSE LET NoRecoveryDate(c) == ~HasRecoveryDate(c)
         IN  [total_cycles |-> Len(cs),
              completed_cycles |-> Len(SelectSeq(cs, HasRecoveryDate)),
              ongoing_cycles |-> Len(SelectSeq(cs, NoRecoveryDate)),
              drawdown |-> Summary(DrawdownsOf(cs)),
              decline_days |-> Summary(DeclineDaysOf(cs)),
              recovery_days |-> SummaryOrNone(RecoveryDaysOf(cs)),
              total_cycle_days |-> SummaryOrNone(TotalDaysOf(cs))]

Categories == {"correction_10_15", "correction_15_20", "bear_market_20_30", "crash_30_plus"}

\* mutant of Category: the bucket edges tested with <=
CategoryInclusive(c) ==
    LET dd == <<Abs(Drawdown(c)[1]), Drawdown(c)[2]>>
    IN  IF RLe(dd, <<3, 20>>) THEN "correction_10_15"
        ELSE IF RLe(dd, <<1, 5>>) THEN "correction_15_20"
        ELSE IF RLe(dd, <<3, 10>>) THEN "bear_market_20_30"
        ELSE "crash_30_plus"

\* lines 300-309: the bucket of one cycle
Category(c) ==
    LET dd == <<Abs(Drawdown(c)[1]), Drawdown(c)[2]>>
    IN  IF RLt(dd, <<3, 20>>) THEN "correction_10_15"
        ELSE IF RLt(dd, <<1, 5>>) THEN "correction_15_20"
        ELSE IF RLt(dd, <<3, 10>>) THEN "bear_market_20_30"
        ELSE "crash_30_plus"

\* lines 311-323: the entry of one non-empty bucket
SeverityEntry(cycle_list) ==
    LET recovery_days == RecoveryDaysOf(cycle_list)
    IN  [count |-> Len(cycle_list),
         avg_drawdown |-> Mean(DrawdownsOf(cycle_list)),
         avg_decline_days |-> Mean(DeclineDaysOf(cycle_list)),
         avg_recovery_days |-> IF recovery_days # <<>> THEN Some(Mean(recovery_days)) ELSE None]

\* categories[name] after the loop of lines 300-309
Members(cs, name) ==
    LET In(c) == Category(c) = name
    IN  SelectSeq(cs, In)

\* analyze_by_severity
BySeverity(cs) ==
    [name \in {x \in Categories : Members(cs, x) # <<>>} |-> SeverityEntry(Members(cs, name))]

AnalyzeInit ==
    /\ a_cycles \in SeqsUpTo(SampleCycles, MaxCycles)
    /\ a_pc = "start"
    /\ stats = <<>> /\ by_severity = <<>>
    /\ SwingIdle /\ SimIdle /\ MetricsIdle

\* line 491: stats = self.analyze_statistics(cycles)
AnalyzeStatistics ==
    /\ a_pc = "start"
    /\ stats' = Statistics(a_cycles)
    /\ a_pc' = "stats"
    /\ UNCHANGED <<a_cycles, by_severity, swingVars, simVars, metricVars>>

\* line 492: by_severity = self.analyze_by_severity(cycles)
AnalyzeBySeverity ==
    /\ a_pc = "stats"
    /\ by_severity' = BySeverity(a_cycles)
    /\ a_pc' = "done"
    /\ UNCHANGED <<a_cycles, stats, swingVars, simVars, metricVars>>

AnalyzeNext == AnalyzeStatistics \/ AnalyzeBySeverity

AnalyzeSpec == AnalyzeInit /\ [][AnalyzeNext]_vars

\* ------------------------------------------------------------ run
\* the frame _simulate_trading returns, as _calculate_metrics reads it
ResultOf(rows, benchmark) ==
    [k \in 1..Len(rows) |->
        [Portfolio |-> rows[k].Portfolio, Benchmark |-> benchmark[k],
         Trade |-> rows[k].Trade, Trade_Return |-> rows[k].Trade_Return]]

\* a run with the capital of the simulator's inputs, without commission and slippage
RunInit ==
    /\ SimInit
    /\ initial_capital \in Capitals
    /\ commission = R(0) /\ slippage = R(0)

\* run, lines 78-80: metrics = self._calculate_metrics(backtest_result, nasdaq_data)
\* on the frame returned by _simulate_trading
RunMetrics ==
    /\ sim_pc = "done"
    /\ m_pc = "idle"
    /\ Len(df) <= MaxRows    \* the results measured are those of the bounded length
    /\ \E result \in {ResultOf(df, Benchmark)} :
           /\ backtest_result' = result
           /\ metrics' = PerformanceMetrics(result)
    /\ m_pc' = "done"
    /\ UNCHANGED <<swingVars, simVars, analyzeVars>>

RunNext == SimBar \/ SimEnd \/ RunMetrics

RunSpec == RunInit /\ [][RunNext]_vars

\* ------------------------------------------------------------ the programs
Init == SwingInit \/ SimInit \/ MetricsInit \/ AnalyzeInit

Next ==
    \/ SwingStart \/ SwingBar \/ SwingEnd
    \/ SimBar \/ SimEnd
    \/ CalculateMetrics \/ RunMetrics
    \/ AnalyzeStatistics \/ AnalyzeBySeverity

Spec == Init /\ [][Next]_vars

\* ------------------------------------------------------------ claims: find_swing_cycles
\* the documented range of the threshold: 0 < threshold < 1
ValidThreshold == RGt(threshold, R(0)) /\ RLt(threshold, R(1))
Returned == pc = "done"
CycleIdx == 1..Len(cycles)
\* the bars at or after the trough of c whose close is >= the peak of c
RecoveryBars(c) == {j \in c.trough_date..(n - 1) : RGe(Close(j), c.peak_price)}
MinOf(S) == CHOOSE x \in S : \A y \in S : x <= y

\* C1: with a threshold in (0,1), every cycle in the list has drawdown <= -threshold,
\* peak_date <= trough_date and, when recovery_date is set, trough_date <= recovery_date.
C1_CycleInvariant ==
    ValidThreshold =>
        \A k \in CycleIdx :
            /\ RLe(Drawdown(cycles[k]), RNeg(threshold))
            /\ cycles[k].peak_date <= cycles[k].trough_date
            /\ cycles[k].recovery_date # None =>
                   cycles[k].trough_date <= cycles[k].recovery_date[1]

\* a returned cycle with a recovery date, under a valid threshold
C1_Witness ==
    /\ Returned /\ ValidThreshold
    /\ \E k \in CycleIdx : cycles[k].recovery_date # None

C8_OrderedDisjoint ==
    Returned =>
        \A k \in CycleIdx :
            k < Len(cycles) =>
                /\ cycles[k].peak_date < cycles[k + 1].peak_date
                /\ cycles[k].trough_date < cycles[k + 1].peak_date

\* at least two cycles returned from one series
C8_Witness == Returned /\ Len(cycles) >= 2 /\ ValidThreshold

\* the close of bar b is above every earlier close of the series
AllTimeHigh(b) == b < n /\ \A j \in 0..(b - 1) : RGt(Close(b), Close(j))
\* the close of bar b is more than 50% above the trough of c
ReboundOver(c, b) ==
    b < n /\ RGt(RDiv(RSub(Close(b), c.trough_price), c.trough_price), <<1, 2>>)

\* C9 as stated (threshold in (0,1)): every cycle is created at a bar that is a new
\* all-time high of the series so far, or at a bar more than 50% above the cycle's
\* trough, or at the end of the series.
C9_AsStated ==
    ValidThreshold =>
        \A k \in CycleIdx :
            \/ cycles[k].closed_at = n
            \/ AllTimeHigh(cycles[k].closed_at)
            \/ ReboundOver(cycles[k], cycles[k].closed_at)

\* C9 amended: every cycle is created at exactly one closing place, and there the
\* event is: a bar whose close is strictly above the running peak of the current
\* cycle (the cycle's peak_price, the highest close since that peak; not an all-time
\* high of the series), or a bar whose close is more than 50% above the cycle's
\* trough, or the end of the series; no two cycles are created at the same place.
C9_ClosingEvents ==
    /\ \A k \in CycleIdx :
           /\ cycles[k].closed_by \in {"new_high", "rebound", "end_of_series"}
           /\ cycles[k].closed_by = "new_high" =>
                  /\ cycles[k].closed_at < n
                  /\ \A j \in cycles[k].peak_date..(cycles[k].closed_at - 1) :
                         RGt(Close(cycles[k].closed_at), Close(j))
           /\ cycles[k].closed_by = "rebound" =>
                  /\ ReboundOver(cycles[k], cycles[k].closed_at)
                  /\ ~RGt(Close(cycles[k].closed_at), cycles[k].peak_price)
           /\ cycles[k].closed_by = "end_of_series" =>
                  /\ cycles[k].closed_at = n
                  /\ Returned
                  /\ in_drawdown
    /\ \A k \in CycleIdx : \A m \in CycleIdx :
           k # m => cycles[k].closed_at # cycles[m].closed_at

\* all three closing places in one run, the new high below the all-time high
C9_Witness ==
    /\ Returned
    /\ \E k \in CycleIdx :
           cycles[k].closed_by = "new_high" /\ ~AllTimeHigh(cycles[k].closed_at)
    /\ \E k \in CycleIdx : cycles[k].closed_by = "rebound"

\* C10: on a series of fewer than 2 bars find_swing_cycles returns the empty list and
\* raises nothing, for any threshold.
C10_ShortSeriesEmpty ==
    (n < 2 /\ pc # "start") => (pc = "done" /\ cycles = <<>>)

\* the call returned on an empty series with a threshold outside (0,1)
C10_Witness == Returned /\ n = 0 /\ ~ValidThreshold

\* C11: with threshold 0.10 and daily closes [100, 95, 85, 90, 100] the close equal to
\* the starting peak does not close the drawdown (it is still open after the last
\* bar) but is its recovery: exactly one cycle is returned, emitted at the end of the
\* series, peak 100 at day 0, trough 85 at day 2, recovery 100 at day 4,
\* decline_days 2, recovery_days 2.
C11_EqualCloseScenario ==
    (close = ScenarioCloses /\ threshold = <<1, 10>>) =>
        /\ (pc = "loop" /\ i = n) => (in_drawdown /\ cycles = <<>>)
        /\ Returned =>
               /\ Len(cycles) = 1
               /\ cycles[1].closed_by = "end_of_series"
               /\ cycles[1].peak_price = R(100) /\ cycles[1].peak_date = 0
               /\ cycles[1].trough_price = R(85) /\ cycles[1].trough_date = 2
               /\ cycles[1].recovery_price = Some(R(100))
               /\ cycles[1].recovery_date = Some(4)
               /\ Drawdown(cycles[1]) = <<-3, 20>>
               /\ DeclineDays(cycles[1]) = 2
               /\ RecoveryDays(cycles[1]) = Some(2)

\* the scenario ran to its return
C11_Witness == Returned /\ close = ScenarioCloses /\ threshold = <<1, 10>>

\* ------------------------------------------------------------ claims: _simulate_trading
RowIdx == 1..Len(df)
LastRow == df[Len(df)]
\* cash and position as they were before bar k
CashBefore(k) == IF k = 1 THEN initial_capital ELSE df[k - 1].Cash
PositionBefore(k) == IF k = 1 THEN R(0) ELSE df[k - 1].Position
\* cost = (target - position) * cash * (1 + commission) of a buy signal sig
CostOf(sig, pos, money) ==
    RMul(RMul(RSub(IF sig = "STRONG_BUY" THEN R(1) ELSE RMin(RAdd(pos, <<1, 2>>), R(1)), pos),
              money),
         RAdd(R(1), commission))
\* the step is one bar of the loop
BarStep == sim_pc = "loop" /\ Len(df') = Len(df) + 1

\* C3: cash is >= 0 after every bar, and a bar is recorded as a buy (Trade = 1) only
\* if its cost was <= the cash held just before the bar.
C3_CashNeverNegative ==
    /\ RGe(cash, R(0))
    /\ \A k \in RowIdx :
           /\ RGe(df[k].Cash, R(0))
           /\ df[k].Trade = 1 =>
                  RLe(CostOf(df[k].Signal, PositionBefore(k), CashBefore(k)), CashBefore(k))

\* with a commission, a buy was executed and a later bar sold
C3_Witness ==
    /\ RGt(commission, R(0))
    /\ \E k \in RowIdx : \E m \in RowIdx :
           k < m /\ df[k].Trade = 1 /\ df[m].Trade = -1

\* C4: after every bar the recorded position fraction lies in [0,1].
C4_PositionInUnitInterval ==
    /\ RGe(position, R(0)) /\ RLe(position, R(1))
    /\ \A k \in RowIdx : RGe(df[k].Position, R(0)) /\ RLe(df[k].Position, R(1))

\* a BUY executed from position 3/4, where min(position + 0.5, 1.0) cuts the target
C4_Witness ==
    \E k \in RowIdx :
        /\ df[k].Signal = "BUY" /\ df[k].Trade = 1
        /\ PositionBefore(k) = <<3, 4>>
        /\ df[k].Position = R(1)

\* C5: a STRONG_BUY or BUY bar with position < 1.0 whose cost exceeds the cash leaves
\* cash, position and entry_price as they were, records Trade 0 and Trade_Return 0,
\* and the loop goes on (nothing is raised).
C5_UnaffordableBuySkipped ==
    [][(/\ BarStep
        /\ LastRow'.Signal \in {"STRONG_BUY", "BUY"}
        /\ RLt(position, R(1))
        /\ RGt(CostOf(LastRow'.Signal, position, cash), cash))
       => (/\ cash' = cash /\ position' = position /\ entry_price' = entry_price
           /\ LastRow'.Trade = 0 /\ LastRow'.Trade_Return = R(0)
           /\ LastRow'.Cash = cash /\ LastRow'.Position = position
           /\ sim_pc' = "loop")]_vars

\* the last bar was a buy signal with room and cash left, too dear for the cash
C5_Witness ==
    /\ df # <<>>
    /\ LastRow.Signal \in {"STRONG_BUY", "BUY"}
    /\ LastRow.Trade = 0
    /\ RLt(position, R(1)) /\ RGt(position, R(0))
    /\ RGt(cash, R(0))
    /\ RGt(CostOf(LastRow.Signal, position, cash), cash)

\* C6: with HOLD on every bar, every bar records position 0, cash = initial_capital,
\* Trade 0 and Portfolio = initial_capital.
C6_AllHoldKeepsCapital ==
    (\A k \in RowIdx : df[k].Signal = "HOLD") =>
        \A k \in RowIdx :
            /\ df[k].Position = R(0)
            /\ df[k].Cash = initial_capital
            /\ df[k].Trade = 0
            /\ df[k].Portfolio = initial_capital

\* three HOLD bars over a price that moved
C6_Witness ==
    /\ Len(df) >= 3
    /\ \A k \in RowIdx : df[k].Signal = "HOLD"
    /\ \E k \in RowIdx : df[k].Close # df[1].Close

\* C7: a HOLD bar, a STRONG_BUY/BUY bar at position 1.0 and a STRONG_SELL/SELL bar at
\* position 0 leave cash, position and entry_price as they were and record Trade 0
\* and Trade_Return 0.
C7_NoRoomNoChange ==
    [][(/\ BarStep
        /\ \/ LastRow'.Signal = "HOLD"
           \/ LastRow'.Signal \in {"STRONG_BUY", "BUY"} /\ position = R(1)
           \/ LastRow'.Signal \in {"STRONG_SELL", "SELL"} /\ position = R(0))
       => (/\ cash' = cash /\ position' = position /\ entry_price' = entry_price
           /\ LastRow'.Trade = 0 /\ LastRow'.Trade_Return = R(0)
           /\ LastRow'.Cash = cash /\ LastRow'.Position = position)]_vars

\* a HOLD bar while a position is held, after a buy bar at position 1.0
C7_Witness ==
    /\ Len(df) >= 3
    /\ LastRow.Signal = "HOLD" /\ RGt(LastRow.Position, R(0))
    /\ \E k \in RowIdx :
           df[k].Signal \in {"STRONG_BUY", "BUY"} /\ PositionBefore(k) = R(1)

\* C12: closes [100, 100], signals [STRONG_BUY, STRONG_SELL], capital 100000, no
\* commission, no slippage: day 0 buys the full position (cash 0, position 1.0,
\* entry_price 100), day 1 sells it all with Trade_Return 0 and ends with cash
\* 100000, position 0, Portfolio 100000.
C12_BuySellScenario ==
    (/\ initial_capital = ScenarioCapital /\ commission = R(0) /\ slippage = R(0)
     /\ df # <<>> /\ df[1].Signal = "STRONG_BUY" /\ df[1].Close = R(100)) =>
        /\ df[1].Trade = 1 /\ df[1].Cash = R(0) /\ df[1].Position = R(1)
        /\ Len(df) = 1 => (entry_price = R(100) /\ cash = R(0) /\ position = R(1))
        /\ (Len(df) >= 2 /\ df[2].Signal = "STRONG_SELL" /\ df[2].Close = R(100)) =>
               /\ df[2].Trade = -1 /\ df[2].Trade_Return = R(0)
               /\ df[2].Cash = ScenarioCapital /\ df[2].Position = R(0)
               /\ df[2].Holdings = R(0)
               /\ df[2].Portfolio = ScenarioCapital
               /\ Len(df) = 2 =>
                      (cash = ScenarioCapital /\ position = R(0) /\ entry_price = R(0))

\* the two-bar scenario returned
C12_Witness ==
    /\ sim_pc = "done" /\ Len(df) = 2
    /\ initial_capital = ScenarioCapital /\ commission = R(0) /\ slippage = R(0)
    /\ df[1].Signal = "STRONG_BUY" /\ df[1].Close = R(100)
    /\ df[2].Signal = "STRONG_SELL" /\ df[2].Close = R(100)

\* ------------------------------------------------------------ claims: _calculate_metrics
MetricsReturned == m_pc = "done"

\* the equity curve handed to calculate_max_drawdown
Equity == [k \in 1..Len(backtest_result) |-> backtest_result[k].Portfolio]

\* bar k lies strictly below the highest value up to and including it
BelowRunningMax(k) == \E j \in 1..k : RGt(Equity[j], Equity[k])

NonDecreasing == \A k \in 2..Len(Equity) : RGe(Equity[k], Equity[k - 1])

\* C13: for every non-empty equity curve of positive values max_drawdown <= 0, and
\* max_drawdown = 0 exactly when the curve is non-decreasing.
C13_MaxDrawdownSign ==
    MetricsReturned =>
        /\ RLe(metrics.max_drawdown, R(0))
        /\ (metrics.max_drawdown = R(0)) <=> NonDecreasing
        /\ NonDecreasing <=> (\A k \in 1..Len(Equity) : ~BelowRunningMax(k))

\* a curve that falls by half and comes back
C13_Witness ==
    /\ MetricsReturned /\ Len(Equity) >= 3
    /\ metrics.max_drawdown = R(-50)
    /\ ~BelowRunningMax(Len(Equity))

\* the runs of consecutive bars strictly below the running maximum, as <<first, last>>
DrawdownRuns ==
    {ab \in (1..Len(Equity)) \X (1..Len(Equity)) :
        ab[1] <= ab[2] /\ \A k \in ab[1]..ab[2] : BelowRunningMax(k)}

DailyReturnAt(k) == RSub(RDiv(Equity[k + 1], Equity[k]), R(1))

\* at least two daily returns, all equal
ZeroDeviation ==
    /\ Len(Equity) >= 3
    /\ \A k \in 1..(Len(Equity) - 1) : DailyReturnAt(k) = DailyReturnAt(1)

TradeBars == {k \in 1..Len(backtest_result) : backtest_result[k].Trade # 0}

WinBars == {k \in TradeBars : RGt(backtest_result[k].Trade_Return, R(0))}

\* C16: the trade statistics cover exactly the bars with a non-zero Trade flag, buys
\* and sells alike: total_trades is their number, win_rate is 100 times the share of
\* them with Trade_Return > 0, and without any such bar total_trades, win_rate and
\* profit_factor are all 0.
C16_TradeStatistics ==
    MetricsReturned =>
        /\ metrics.total_trades = Cardinality(TradeBars)
        /\ TradeBars # {} =>
               metrics.win_rate =
                   Num(RDiv(R(100 * Cardinality(WinBars)), R(Cardinality(TradeBars))))
        /\ TradeBars = {} =>
               /\ metrics.win_rate = Num(R(0))
               /\ metrics.profit_factor = Num(R(0))

\* a buy, a winning sell and a losing sell
C16_Witness ==
    /\ MetricsReturned
    /\ metrics.total_trades = 3
    /\ \E k \in TradeBars : backtest_result[k].Trade = 1
    /\ Cardinality(WinBars) = 1
    /\ metrics.win_rate = Num(<<100, 3>>)
    /\ \E k \in TradeBars : RLt(backtest_result[k].Trade_Return, R(0))

\* ------------------------------------------------------------ claims: analyze_statistics, analyze_by_severity
CycleArgs == 1..Len(a_cycles)

\* abs(drawdown) of the k-th cycle handed in
AbsDrawdown(k) ==
    (IF RLt(a_cycles[k].trough_price, a_cycles[k].peak_price)
     THEN RDiv(RSub(a_cycles[k].peak_price, a_cycles[k].trough_price), a_cycles[k].peak_price)
     ELSE RDiv(RSub(a_cycles[k].trough_price, a_cycles[k].peak_price), a_cycles[k].peak_price))

\* the bucket the k-th cycle belongs to, by the half-open ranges of abs(drawdown)
BucketOf(k) ==
    CASE RLt(AbsDrawdown(k), <<15, 100>>) -> "correction_10_15"
      [] RGe(AbsDrawdown(k), <<15, 100>>) /\ RLt(AbsDrawdown(k), <<20, 100>>) -> "correction_15_20"
      [] RGe(AbsDrawdown(k), <<20, 100>>) /\ RLt(AbsDrawdown(k), <<30, 100>>) -> "bear_market_20_30"
      [] RGe(AbsDrawdown(k), <<30, 100>>) -> "crash_30_plus"

CountOf(name) == IF name \in DOMAIN by_severity THEN by_severity[name].count ELSE 0

\* C17: analyze_by_severity puts every cycle in the one bucket of its abs(drawdown),
\* [0, 0.15), [0.15, 0.20), [0.20, 0.30) or [0.30, inf); the result holds exactly the
\* non-empty buckets and the counts add up to the number of cycles.
C17_SeverityBuckets ==
    a_pc = "done" =>
        /\ DOMAIN by_severity = {BucketOf(k) : k \in CycleArgs}
        /\ \A name \in DOMAIN by_severity :
               by_severity[name].count = Cardinality({k \in CycleArgs : BucketOf(k) = name})
        /\ CountOf("correction_10_15") + CountOf("correction_15_20")
               + CountOf("bear_market_20_30") + CountOf("crash_30_plus") = Len(a_cycles)

\* three cycles with drawdowns of exactly 15%, 20% and 30%
C17_Witness ==
    /\ a_pc = "done" /\ Len(a_cycles) = 3
    /\ \A e \in {15, 20, 30} : \E k \in CycleArgs : AbsDrawdown(k) = RDiv(R(e), R(100))
    /\ DOMAIN by_severity = {"correction_15_20", "bear_market_20_30", "crash_30_plus"}

\* the cycles of a group that have a recovery_date
Recovered(group) == {k \in group : a_cycles[k].recovery_date # None}

RECURSIVE SumRecoveryDays(_)
SumRecoveryDays(ks) ==
    IF ks = {} THEN 0
    ELSE LET k == CHOOSE x \in ks : TRUE
         IN  (a_cycles[k].recovery_date[1] - a_cycles[k].trough_date)
                 + SumRecoveryDays(ks \ {k})

\* the mean recovery days of a group: null without a recovered cycle
MeanRecoveryDays(group) ==
    IF Recovered(group) = {} THEN None
    ELSE Some(RDiv(R(SumRecoveryDays(Recovered(group))), R(Cardinality(Recovered(group)))))

\* every cycle handed in has peak_date <= trough_date <= recovery_date (when present)
DataModelInvariant ==
    \A k \in CycleArgs :
        /\ a_cycles[k].peak_date <= a_cycles[k].trough_date
        /\ a_cycles[k].recovery_date # None =>
               a_cycles[k].recovery_date[1] >= a_cycles[k].trough_date

\* C18: for cycles that satisfy the data-model invariant, analyze_statistics and
\* analyze_by_severity average the recovery days over exactly the cycles with a
\* recovery_date, and report null exactly when the group has no such cycle.
C18_RecoveryOverRecovered ==
    (DataModelInvariant /\ a_cycles # <<>>) =>
        /\ a_pc \in {"stats", "done"} =>
               stats.recovery_days.mean = MeanRecoveryDays(CycleArgs)
        /\ a_pc = "done" =>
               \A name \in DOMAIN by_severity :
                   by_severity[name].avg_recovery_days =
                       MeanRecoveryDays({k \in CycleArgs : BucketOf(k) = name})

\* ------------------------------------------------------------ claims: degenerate and invalid inputs
\* C19: with zero bars _simulate_trading returns an empty equity curve and
\* _calculate_metrics returns zeroed metrics; neither raises.
C19_ZeroBarsHandled ==
    /\ (sim_pc \notin {"idle", "loop"} /\ df = <<>>) =>
           /\ sim_pc = "done"
           /\ Benchmark = <<>> /\ Cumulative_Return = <<>>
    /\ (m_pc \notin {"idle", "start"} /\ backtest_result = <<>>) =>
           /\ m_pc = "done"
           /\ metrics.total_trades = 0 /\ metrics.max_drawdown = R(0)

\* C20: a caller's constraint violation ends in a hard failure: find_swing_cycles with
\* a threshold outside (0, 1) returns no cycles, and a simulation with a negative
\* initial_capital, commission or slippage returns no equity curve.
C20_ViolationsFailHard ==
    /\ (pc # "idle" /\ ~ValidThreshold) => ~(Returned /\ cycles # <<>>)
    /\ (sim_pc # "idle"
        /\ (RLt(initial_capital, R(0)) \/ RLt(commission, R(0)) \/ RLt(slippage, R(0))))
           => sim_pc # "done"

LoopStep == pc = "loop" /\ i < n /\ i' = i + 1 /\ ValidThreshold

\* the close of bar i against the running trough before the bar: 50% above it is
\* 3/2 of it
OverHalfAboveTrough == RGt(Close(i), RMul(<<3, 2>>, cycle_trough))
HalfAboveTrough == Close(i) = RMul(<<3, 2>>, cycle_trough)

\* the open cycle is emitted with the peak recorded at drawdown entry, and the next
\* cycle starts at bar i
ClosedAndRestarted ==
    /\ Len(cycles') = Len(cycles) + 1
    /\ SubSeq(cycles', 1, Len(cycles)) = cycles
    /\ cycles'[Len(cycles')].peak_date = Dates(drawdown_start_idx)
    /\ cycles'[Len(cycles')].peak_price = Close(drawdown_start_idx)
    /\ cycle_peak' = Close(i) /\ cycle_trough' = Close(i)
    /\ cycle_peak_idx' = i /\ cycle_trough_idx' = i
    /\ ~in_drawdown'

LeftOpen == cycles' = cycles /\ in_drawdown' /\ drawdown_start_idx' = drawdown_start_idx

\* C22 as stated: while in drawdown a bar whose close is strictly more than 50% above
\* the running trough closes the open cycle and starts the next one at that bar; a
\* rebound of exactly 50% leaves the cycle open.
C22_AsStated ==
    [][(LoopStep /\ in_drawdown) =>
           /\ OverHalfAboveTrough => ClosedAndRestarted
           /\ HalfAboveTrough => LeftOpen]_vars

\* C22 amended: a close strictly more than 50% above the running trough closes the
\* open cycle and starts the next one at that bar; a rebound of exactly 50% leaves
\* the cycle open unless the close is also strictly above the running peak, in which
\* case the new-high branch closes it.
C22_ReboundClosesCycle ==
    [][(LoopStep /\ in_drawdown) =>
           /\ OverHalfAboveTrough => ClosedAndRestarted
           /\ (HalfAboveTrough /\ ~RGt(Close(i), cycle_peak)) => LeftOpen
           /\ (HalfAboveTrough /\ RGt(Close(i), cycle_peak)) =>
                  /\ ClosedAndRestarted
                  /\ cycles'[Len(cycles')].closed_by = "new_high"]_vars

\* a cycle that stayed open through a bar exactly 50% above its trough and was closed
\* by a later, higher rebound
C22_Witness ==
    /\ Returned /\ ValidThreshold
    /\ \E k \in CycleIdx :
           /\ cycles[k].closed_by = "rebound"
           /\ \E j \in (cycles[k].trough_date + 1)..(cycles[k].closed_at - 1) :
                  Close(j) = RMul(<<3, 2>>, cycles[k].trough_price)

\* the last bar processed when cycle c was closed
ClosingBar(c) == IF c.closed_at = n THEN n - 1 ELSE c.closed_at

\* C23: for every cycle, peak_price is >= every close from peak_date to trough_date,
\* trough_price is the minimum close over the bars from peak_date through the bar on
\* which the cycle was closed, and trough_date is the earliest bar with that minimum.
C23_PeakAndTrough ==
    \A k \in CycleIdx :
        /\ \A j \in cycles[k].peak_date..cycles[k].trough_date :
               RGe(cycles[k].peak_price, Close(j))
        /\ cycles[k].trough_date \in cycles[k].peak_date..ClosingBar(cycles[k])
        /\ Close(cycles[k].trough_date) = cycles[k].trough_price
        /\ \A j \in cycles[k].peak_date..ClosingBar(cycles[k]) :
               RLe(cycles[k].trough_price, Close(j))
        /\ \A j \in cycles[k].peak_date..(cycles[k].trough_date - 1) :
               RGt(Close(j), cycles[k].trough_price)

\* a returned cycle whose minimum close occurs on two bars before it is closed
C23_Witness ==
    /\ Returned /\ ValidThreshold
    /\ \E k \in CycleIdx :
           \E j \in (cycles[k].trough_date + 1)..ClosingBar(cycles[k]) :
               Close(j) = cycles[k].trough_price

\* 1 while a drawdown is open, else 0
OpenCycles(flag) == IF flag THEN 1 ELSE 0

\* C25: with a threshold in (0,1) every entry into the in-drawdown state leads to
\* exactly one emitted cycle: no step emits more than one cycle, during the loop the
\* cycles emitted plus the open drawdown equal the number of times the flag was set
\* (the guard at every closing place let the cycle through), and the returned list
\* has as many cycles as the flag was set.
C25_OneCyclePerEntry ==
    [][ValidThreshold =>
           /\ Len(cycles') <= Len(cycles) + 1
           /\ pc' = "loop" => Len(cycles') + OpenCycles(in_drawdown') = n_entries'
           /\ pc' = "done" => Len(cycles') = n_entries']_vars

\* two entries into the drawdown, closed at two different places
C25_Witness ==
    /\ Returned /\ ValidThreshold
    /\ n_entries >= 2
    /\ \E k \in CycleIdx : \E m \in CycleIdx : cycles[k].closed_by # cycles[m].closed_by
    /\ \E k \in CycleIdx : Drawdown(cycles[k]) = RNeg(threshold)

\* C26: after every loop iteration that leaves in_drawdown true, the running peak is
\* the peak recorded at drawdown entry (cycle_peak_idx = drawdown_start_idx and
\* cycle_peak = close[drawdown_start_idx]) and the running trough is at least the
\* threshold below it.
C26_PeakFixedInDrawdown ==
    (pc = "loop" /\ in_drawdown) =>
        /\ cycle_peak_idx = drawdown_start_idx
        /\ cycle_peak = Close(drawdown_start_idx)
        /\ RLe(RDiv(RSub(cycle_trough, cycle_peak), cycle_peak), RNeg(threshold))

\* a drawdown whose peak is not the first bar, still open two bars after its trough
C26_Witness ==
    /\ pc = "loop" /\ in_drawdown /\ ValidThreshold
    /\ drawdown_start_idx > 0
    /\ cycle_trough_idx > drawdown_start_idx
    /\ i >= cycle_trough_idx + 3

\* ------------------------------------------------------------ claims: _simulate_trading, the position
\* C24: an executed SELL halves the position and keeps entry_price, an executed
\* STRONG_SELL sets position to 0 and entry_price to 0; a positive position becomes
\* exactly 0 only on a STRONG_SELL bar, and that bar records Holdings = 0 and
\* Portfolio = cash.
C24_SellHalvesStrongSellCloses ==
    [][BarStep =>
           /\ (LastRow'.Trade = -1 /\ LastRow'.Signal = "SELL") =>
                  /\ position' = RMul(position, <<1, 2>>)
                  /\ RGt(position', R(0))
                  /\ entry_price' = entry_price
           /\ (LastRow'.Trade = -1 /\ LastRow'.Signal = "STRONG_SELL") =>
                  /\ position' = R(0)
                  /\ entry_price' = R(0)
           /\ (RGt(position, R(0)) /\ position' = R(0)) =>
                  /\ LastRow'.Signal = "STRONG_SELL" /\ LastRow'.Trade = -1
                  /\ LastRow'.Holdings = R(0)
                  /\ LastRow'.Portfolio = cash'
                  /\ LastRow'.Cash = cash']_vars

\* an executed SELL that left half the position, then an executed STRONG_SELL
C24_Witness ==
    /\ Len(df) >= 3
    /\ position = R(0) /\ entry_price = R(0)
    /\ LastRow.Signal = "STRONG_SELL" /\ LastRow.Trade = -1
    /\ \E k \in RowIdx :
           /\ df[k].Signal = "SELL" /\ df[k].Trade = -1
           /\ df[k].Position = RMul(PositionBefore(k), <<1, 2>>)

\* C27: after every bar entry_price > 0 exactly when position > 0, so every executed
\* sell finds entry_price > 0 and never takes the "else 1" of the sell valuation.
C27_EntryPriceIffPosition ==
    [][BarStep =>
           /\ RGt(entry_price', R(0)) <=> RGt(position', R(0))
           /\ LastRow'.Trade = -1 => (RGt(entry_price, R(0)) /\ RGt(position, R(0)))]_vars

\* bought, sold at a price other than the entry price, flat again
C27_Witness ==
    /\ Len(df) >= 2
    /\ position = R(0) /\ entry_price = R(0)
    /\ LastRow.Trade = -1 /\ LastRow.Trade_Return # R(0)
    /\ \E k \in RowIdx : df[k].Trade = 1

\* C28: with commission > 0 a STRONG_BUY received while position = 0 is never
\* executed, so a flat position is opened only by a BUY, and a signal stream without
\* any BUY never trades.
C28_StrongBuyFromFlatSkipped ==
    [][(BarStep /\ RGt(commission, R(0))) =>
           /\ (position = R(0) /\ LastRow'.Signal = "STRONG_BUY") =>
                  /\ LastRow'.Trade = 0
                  /\ position' = R(0) /\ cash' = cash /\ entry_price' = entry_price
           /\ (position = R(0) /\ RGt(position', R(0))) => LastRow'.Signal = "BUY"
           /\ (\A k \in 1..Len(df') : df'[k].Signal # "BUY") =>
                  /\ \A k \in 1..Len(df') : df'[k].Trade = 0
                  /\ position' = R(0) /\ cash' = initial_capital]_vars

\* a STRONG_BUY skipped on the first bar, a BUY executed, a STRONG_BUY executed from
\* the half position
C28_Witness ==
    /\ Len(df) >= 3 /\ RGt(commission, R(0))
    /\ df[1].Signal = "STRONG_BUY" /\ df[1].Trade = 0
    /\ \E k \in RowIdx :
           /\ df[k].Signal = "BUY" /\ df[k].Trade = 1
           /\ \E m \in RowIdx : m > k /\ df[m].Signal = "STRONG_BUY" /\ df[m].Trade = 1

\* ------------------------------------------------------------ claims: _simulate_trading, value
NoCosts == commission = R(0) /\ slippage = R(0)

\* C29: with commission = 0, slippage = 0 and the same price on every bar, every bar
\* records Portfolio = initial_capital, whatever the signals.
C29_ConstantPriceKeepsValue ==
    (NoCosts /\ \A k \in RowIdx : df[k].Close = df[1].Close) =>
        \A k \in RowIdx : df[k].Portfolio = initial_capital

\* C30: with commission = 0 and slippage = 0, a STRONG_BUY on bar 0 followed only by
\* signals other than SELL and STRONG_SELL gives Portfolio[i] = Benchmark[i] =
\* initial_capital * Close[i] / Close[0] on every bar, and excess_return = 0.
C30_BuyAndHoldIsBenchmark ==
    (/\ NoCosts
     /\ df # <<>> /\ df[1].Signal = "STRONG_BUY"
     /\ \A k \in 2..Len(df) : df[k].Signal \notin {"SELL", "STRONG_SELL"}) =>
        /\ \A k \in RowIdx :
               df[k].Portfolio = RMul(initial_capital, RDiv(df[k].Close, df[1].Close))
        /\ sim_pc = "done" => \A k \in RowIdx : Benchmark[k] = df[k].Portfolio
        /\ m_pc = "done" =>
               /\ metrics.excess_return = R(0)
               /\ metrics.total_return = metrics.benchmark_return

\* a buy-and-hold run over a price that moved, with later buy signals, measured
C30_Witness ==
    /\ m_pc = "done" /\ NoCosts
    /\ Len(df) >= 3 /\ df[1].Signal = "STRONG_BUY" /\ df[1].Trade = 1
    /\ \A k \in 2..Len(df) : df[k].Signal \notin {"SELL", "STRONG_SELL"}
    /\ \E k \in 2..Len(df) : df[k].Signal = "BUY"
    /\ metrics.total_return # R(0)
    /\ metrics.excess_return = R(0)

====
